---- MODULE Spec2Model ----
(***************************************************************************)
(* LucidCode (src/app.py): a Streamlit script that is re-run from top to   *)
(* bottom on every user event.  The model has one action per user event;   *)
(* each action is one whole run of the script.                             *)
(*                                                                         *)
(* Text (source code, provider responses, stored results) is a sequence of *)
(* one-character strings, so that split(), strip() and the substring test  *)
(* are computed character by character as Python computes them.            *)
(***************************************************************************)
EXTENDS Integers, Sequences, FiniteSets, TLC

VARIABLES
    api_key,             \* st.session_state.api_key
    env_key,             \* os.getenv("GROQ_API_KEY"), fixed for the process
    translation_result,  \* st.session_state.translation_result
    explanation_result,  \* st.session_state.explanation_result
    original_code,       \* st.session_state.original_code
    chat_history,        \* st.session_state.chat_history
    stub,                \* the response a stubbed provider returns, or None
    action,              \* the user event that triggered the last run
    full_response,       \* response.content of the last answered translate
    calls,               \* prompts given to llm.invoke during the last run
    warning,             \* st.warning of line 75 shown by the last run
    code_to_display,     \* what st.code showed in the last run, or None
    error,               \* the exception that ended the last run, or "none"
    translate_button,    \* the last run rendered st.button (line 73)
    chat_input           \* the last run rendered st.chat_input (line 150)

vars == <<api_key, env_key, translation_result, explanation_result,
          original_code, chat_history, stub, action, full_response, calls,
          warning, code_to_display, error, translate_button, chat_input>>

session == <<translation_result, explanation_result, original_code,
             chat_history>>

-----------------------------------------------------------------------------
(* Bounds of the model. *)

\* Longest chat history a chat action may produce.
MaxHistory == 3
\* Most pieces a stubbed provider response is assembled from.
MaxChunks == 4

-----------------------------------------------------------------------------
(* Text values. *)

\* Python's None: a value no str equals (every str is a sequence of
\* one-character strings).
None == <<"<None>">>

\* What llm.invoke raising looks like among the provider's outcomes.
Failure == <<"<ProviderError>">>

NL == "\n"

Whitespace == {" ", NL}

DELIM == <<"-", "-", "-", "E", "X", "P", "L", "A", "N", "A", "T", "I", "O", "N",
           "-", "-", "-">>

\* The backquote character (written by name: the character itself cannot
\* appear inside a TLA+ string).
Backquote == "backquote"

\* The markdown fence marker: three backquotes.
FENCE == <<Backquote, Backquote, Backquote>>

Placeholder == <<"The AI did not provide a separate explanation.">>

\* Python truthiness of a session value that is None or a str.
Truthy(s) == s # None /\ s # <<>>

\* pat occurs in s at position i.
OccursAt(s, pat, i) ==
    /\ i + Len(pat) - 1 <= Len(s)
    /\ \A k \in 1..Len(pat) : s[i + k - 1] = pat[k]

RECURSIVE IndexFrom(_, _, _)
IndexFrom(s, pat, i) ==
    IF i + Len(pat) - 1 > Len(s) THEN 0
    ELSE IF OccursAt(s, pat, i) THEN i
    ELSE IndexFrom(s, pat, i + 1)

\* s.find(pat) + 1: the position of the first occurrence of pat in s, 0 if none.
IndexOf(s, pat) == IndexFrom(s, pat, 1)

\* pat in s
Contains(s, pat) == IndexOf(s, pat) # 0

RECURSIVE LStrip(_)
LStrip(s) ==
    IF s = <<>> \/ Head(s) \notin Whitespace THEN s ELSE LStrip(Tail(s))

RECURSIVE RStrip(_)
RStrip(s) ==
    IF s = <<>> \/ s[Len(s)] \notin Whitespace
    THEN s
    ELSE RStrip(SubSeq(s, 1, Len(s) - 1))

\* s.strip()
Strip(s) == RStrip(LStrip(s))

\* s.split(pat, 1) for a pat that occurs in s: <<before, after>>.
SplitOnce(s, pat) ==
    LET i == IndexOf(s, pat)
    IN  <<SubSeq(s, 1, i - 1), SubSeq(s, i + Len(pat), Len(s))>>

-----------------------------------------------------------------------------
(* The pieces of the script. *)

\* Mutant of LlmAvailable: the client is created without the test of line 48.
LlmUnchecked(key, env) == TRUE

\* Line 46 and 48: st.session_state.api_key or os.getenv("GROQ_API_KEY"),
\* and llm is created only when that is truthy.  An unset environment
\* variable is modelled as "".
LlmAvailable(key, env) == key # "" \/ env # ""

\* Mutant of SelectTemplate: line 80 tests for HTML alone.
SelectTemplateHtmlOnly(target_lang) ==
    IF target_lang = "HTML" THEN "webpage" ELSE "generic"

\* Line 80: which translate template the prompt is rendered from.
SelectTemplate(target_lang) ==
    IF target_lang \in {"HTML", "CSS"} THEN "webpage" ELSE "generic"

\* A rendered prompt: the template and the values substituted into it.
Prompt(template, source_lang, target_lang, code, translation, history, question) ==
    [template |-> template, source_lang |-> source_lang,
     target_lang |-> target_lang, code |-> code, translation |-> translation,
     history |-> history, question |-> question]

\* Lines 80-115.
TranslatePrompt(source_lang, target_lang, source_code) ==
    Prompt(SelectTemplate(target_lang), source_lang, target_lang, source_code,
           None, <<>>, None)

\* Lines 156-188.
ChatPrompt(source_lang, target_lang, code, translation, history, question) ==
    Prompt("chat", source_lang, target_lang, code, translation, history,
           question)

\* Mutant of SplitResponse: line 123 without strip().
SplitResponseUnstripped(response) ==
    IF Contains(response, DELIM)
    THEN LET parts == SplitOnce(response, DELIM)
         IN  [translation |-> Strip(parts[1]), explanation |-> parts[2]]
    ELSE [translation |-> response, explanation |-> Placeholder]

\* Mutant of SplitResponse: line 125 with strip(), as in line 122.
SplitResponseStripsFallback(response) ==
    IF Contains(response, DELIM)
    THEN LET parts == SplitOnce(response, DELIM)
         IN  [translation |-> Strip(parts[1]), explanation |-> Strip(parts[2])]
    ELSE [translation |-> Strip(response), explanation |-> Placeholder]

\* Lines 120-126: the stored translation and explanation for a response.
SplitResponse(response) ==
    IF Contains(response, DELIM)
    THEN LET parts == SplitOnce(response, DELIM)
         IN  [translation |-> Strip(parts[1]), explanation |-> Strip(parts[2])]
    ELSE [translation |-> response, explanation |-> Placeholder]

\* translation.split(FENCE)[1] of line 133, for a translation that contains
\* a fence: the text after the first fence marker, up to the next one if any.
FencedSegment(translation) ==
    LET rest == SplitOnce(translation, FENCE)[2]
    IN  IF Contains(rest, FENCE) THEN SplitOnce(rest, FENCE)[1] ELSE rest

\* Line 133 raises IndexError: the fenced segment has no newline, so
\* split('\n', 1) has no element 1.
ExtractionFails(translation) ==
    /\ Contains(translation, FENCE)
    /\ ~Contains(FencedSegment(translation), <<NL>>)

\* Mutant of CodeToDisplay: line 133 without the split on the newline, so
\* the language-tag line stays in the shown code.
CodeWithTagLine(translation) ==
    IF Contains(translation, FENCE)
    THEN FencedSegment(translation)
    ELSE translation

\* Line 133, when it does not raise.
CodeToDisplay(translation) ==
    IF Contains(translation, FENCE)
    THEN SplitOnce(FencedSegment(translation), <<NL>>)[2]
    ELSE translation

\* Mutant of ChatSectionVisible: the chat section without the test of
\* line 143.
ChatSectionUnguarded(translation) == TRUE

\* Line 143: the chat section is rendered for this stored translation.
ChatSectionVisible(translation) == Truthy(translation)

\* Mutant of HistoryAppend: insert(0, ...) instead of append.
HistoryPrepend(history, role, message) == <<<<role, message>>>> \o history

\* Mutant of HistoryAppend: the list is assigned, not appended to.
HistoryReplace(history, role, message) == <<<<role, message>>>>

\* Lines 151 and 193: chat_history.append((role, message)).
HistoryAppend(history, role, message) == Append(history, <<role, message>>)

\* Lines 131-150 of a run in which no chat question was submitted: the code
\* pane, then the chat section up to the chat input.
RenderResults(translation) ==
    IF Truthy(translation) /\ ExtractionFails(translation)
    THEN [code |-> None, error |-> "IndexError", chat_input |-> FALSE]
    ELSE [code |-> IF Truthy(translation) THEN CodeToDisplay(translation)
                   ELSE None,
          error |-> "none",
          chat_input |-> ChatSectionVisible(translation)]

Render(translation) ==
    LET r == RenderResults(translation)
    IN  /\ code_to_display' = r.code
        /\ error' = r.error
        /\ chat_input' = r.chat_input

-----------------------------------------------------------------------------
(* Inputs. *)

\* Line 63, three of the twelve: one ordinary language and the two the script
\* treats specially.
supported_languages == {"Python", "HTML", "CSS"}

\* The source languages tried: an ordinary one and a special one.
SourceLangs == {"Python", "HTML"}

\* What the text area may hold: nothing, blanks only, code.
SourceCodes == {<<>>, <<" ">>, <<"x">>}

\* What the sidebar's key field may hold.
KeyInputs == {"", "gsk_user"}

EnvKeys == {"", "gsk_env"}

Questions == {<<"p">>, <<"q">>}

\* Provider responses of the interactive session: empty, prose, the
\* well-formed answer of the prompt's convention, a fence without a newline
\* after it.
SessionResponses ==
    { <<>>,
      <<"a">>,
      FENCE \o <<"j", NL, "c", NL>> \o FENCE \o <<NL>> \o DELIM \o <<NL, "e">>,
      FENCE \o <<"c">> \o FENCE }

\* The pieces a stubbed provider response is assembled from.
Chunks == {DELIM, FENCE, <<NL>>, <<" ">>, <<"a">>, <<"-">>, <<Backquote>>}

RECURSIVE ChunkStrings(_)
ChunkStrings(n) ==
    IF n = 0
    THEN {<<>>}
    ELSE LET shorter == ChunkStrings(n - 1)
         IN  shorter \cup {c \o t : c \in Chunks, t \in shorter}

StubResponses == ChunkStrings(MaxChunks)

\* What llm.invoke may do in a translate run: the stubbed response when the
\* provider is stubbed, otherwise any session response or an exception.
TranslateOutcomes ==
    IF stub # None THEN {stub} ELSE SessionResponses \cup {Failure}

Answers == {<<"r">>}

\* What llm.invoke may do in a chat run.
ChatOutcomes == Answers \cup {Failure}

-----------------------------------------------------------------------------
(* The state after the first run of the script: lines 16-26, no key typed,  *)
(* nothing stored, so neither the code pane nor the chat section is shown.  *)

InitSession ==
    /\ api_key = ""
    /\ translation_result = None
    /\ explanation_result = None
    /\ original_code = <<>>
    /\ chat_history = <<>>
    /\ action = "load"
    /\ full_response = None
    /\ calls = <<>>
    /\ warning = FALSE
    /\ code_to_display = None
    /\ error = "none"
    /\ translate_button = TRUE
    /\ chat_input = FALSE

Init ==
    /\ InitSession
    /\ env_key \in EnvKeys
    /\ stub = None

\* A session against a stubbed provider that answers every translate with
\* the same response; the key comes from the environment.
InitStub ==
    /\ InitSession
    /\ env_key = "gsk_env"
    /\ stub \in StubResponses

-----------------------------------------------------------------------------
(* The user events.  Each is one run of the whole script. *)

\* The user leaves the sidebar's key field holding user_api_key (lines 33-41);
\* nothing else is submitted, so the run only renders.
EnterApiKey(user_api_key) ==
    /\ api_key' = IF user_api_key # "" THEN user_api_key ELSE api_key
    /\ action' = "key"
    /\ translate_button' = TRUE
    /\ calls' = <<>>
    /\ warning' = FALSE
    /\ Render(translation_result)
    /\ UNCHANGED <<env_key, stub, session, full_response>>

\* The user changes a select box or the text area: a run that only renders.
Rerun ==
    /\ action' = "rerun"
    /\ translate_button' = TRUE
    /\ calls' = <<>>
    /\ warning' = FALSE
    /\ Render(translation_result)
    /\ UNCHANGED <<api_key, env_key, stub, session, full_response>>

\* The user clicks "Translate & Explain" (lines 73-134, then 136-150) with
\* these widget values; outcome is what llm.invoke does when it is called.
\* Every run reaches line 73 before anything can raise, so the button is
\* always drawn again.
Translate(source_lang, target_lang, source_code) ==
    /\ translate_button
    /\ action' = "translate"
    /\ translate_button' = TRUE
    /\ UNCHANGED <<api_key, env_key, stub>>
    /\ IF ~LlmAvailable(api_key, env_key)
       THEN \* line 75
            /\ warning' = TRUE
            /\ calls' = <<>>
            /\ Render(translation_result)
            /\ UNCHANGED <<session, full_response>>
       ELSE IF Strip(source_code) # <<>>
       THEN /\ warning' = FALSE
            /\ calls' = <<TranslatePrompt(source_lang, target_lang, source_code)>>
            /\ \E outcome \in TranslateOutcomes :
               IF outcome = Failure
               THEN \* line 117 raises: the run ends there
                    /\ error' = "ProviderError"
                    /\ code_to_display' = None
                    /\ chat_input' = FALSE
                    /\ UNCHANGED <<session, full_response>>
               ELSE LET parts == SplitResponse(outcome)
                    IN  /\ full_response' = outcome
                        /\ translation_result' = parts.translation
                        /\ explanation_result' = parts.explanation
                        /\ original_code' = source_code
                        /\ chat_history' = <<>>
                        /\ Render(parts.translation)
       ELSE \* blank source code: the click does nothing
            /\ warning' = FALSE
            /\ calls' = <<>>
            /\ Render(translation_result)
            /\ UNCHANGED <<session, full_response>>

\* The user submits a question in the chat input (lines 150-195).  The input
\* is on the page only if the last run rendered it; the run it triggers goes
\* through lines 131-150 again before it reaches the question.
Chat(source_lang, target_lang, user_question, outcome) ==
    /\ chat_input
    /\ Len(chat_history) + (IF outcome = Failure THEN 1 ELSE 2) <= MaxHistory
    /\ action' = "chat"
    /\ translate_button' = TRUE
    /\ warning' = FALSE
    /\ UNCHANGED <<api_key, env_key, stub, translation_result,
                   explanation_result, original_code, full_response>>
    /\ LET r == RenderResults(translation_result)
           asked == HistoryAppend(chat_history, "user", user_question)
       IN  /\ code_to_display' = r.code
           /\ chat_input' = r.chat_input
           /\ IF ~r.chat_input
              THEN \* the run does not reach line 150
                   /\ calls' = <<>>
                   /\ error' = r.error
                   /\ UNCHANGED chat_history
              ELSE IF ~LlmAvailable(api_key, env_key)
              THEN \* line 191 on llm = None
                   /\ calls' = <<>>
                   /\ error' = "AttributeError"
                   /\ chat_history' = asked
              ELSE /\ calls' = <<ChatPrompt(source_lang, target_lang,
                                            original_code, translation_result,
                                            asked, user_question)>>
                   /\ IF outcome = Failure
                      THEN \* line 191 raises, after line 151 has appended
                           /\ error' = "ProviderError"
                           /\ chat_history' = asked
                      ELSE /\ error' = "none"
                           /\ chat_history' =
                                  HistoryAppend(asked, "assistant", outcome)

ClickTranslate ==
    \E sl \in SourceLangs, tl \in supported_languages, sc \in SourceCodes :
        Translate(sl, tl, sc)

SubmitChat ==
    \E sl \in SourceLangs, tl \in supported_languages, q \in Questions,
       o \in ChatOutcomes : Chat(sl, tl, q, o)

Next ==
    \/ \E k \in KeyInputs : EnterApiKey(k)
    \/ Rerun
    \/ ClickTranslate
    \/ SubmitChat

Spec == Init /\ [][Next]_vars

\* The session against the stubbed provider: the user translates one snippet
\* from Python to JavaScript and lets the page re-render.
NextStub ==
    \/ Translate("Python", "JavaScript", <<"x">>)
    \/ Rerun

SpecStub == InitStub /\ [][NextStub]_vars

-----------------------------------------------------------------------------
(* Vocabulary of the properties, stated without the script's own helpers. *)

IsPrefix(s, t) == Len(s) <= Len(t) /\ SubSeq(t, 1, Len(s)) = s

\* pat starts at position i of s.
StartsAt(s, pat, i) ==
    i >= 1 /\ i + Len(pat) - 1 <= Len(s) /\ SubSeq(s, i, i + Len(pat) - 1) = pat

HasDelimiter(s) == \E i \in 1..Len(s) : StartsAt(s, DELIM, i)

HasFence(s) == \E i \in 1..Len(s) : StartsAt(s, FENCE, i)

\* t is s without its leading and trailing whitespace.
IsStripped(t, s) ==
    \E lo \in 1..(Len(s) + 1), hi \in 0..Len(s) :
        /\ t = SubSeq(s, lo, hi)
        /\ \A k \in 1..(lo - 1) : s[k] \in Whitespace
        /\ \A k \in (hi + 1)..Len(s) : s[k] \in Whitespace
        /\ t # <<>> => (t[1] \notin Whitespace /\ t[Len(t)] \notin Whitespace)

\* t holds a fenced block: its first fence marker starts at i, the next
\* marker after it starts at j, and the language-tag line between them ends
\* with the newline at n.
FencedBlockAt(t, i, n, j) ==
    /\ StartsAt(t, FENCE, i)
    /\ \A k \in 1..(i - 1) : ~StartsAt(t, FENCE, k)
    /\ j >= i + Len(FENCE)
    /\ StartsAt(t, FENCE, j)
    /\ \A k \in (i + Len(FENCE))..(j - 1) : ~StartsAt(t, FENCE, k)
    /\ n \in (i + Len(FENCE))..(j - 1)
    /\ t[n] = NL
    /\ \A k \in (i + Len(FENCE))..(n - 1) : t[k] # NL

\* The last run was a translate click that reached the provider.
TranslateCalled == action = "translate" /\ calls # <<>>

\* The last run was a translate click whose response was stored.
TranslateStored == TranslateCalled /\ error # "ProviderError"

-----------------------------------------------------------------------------
(* C1 *)

\* C1: a translate click made while the session key is empty and the
\* environment gives none sends nothing to the provider, leaves
\* translation_result, explanation_result, original_code and chat_history as
\* they were, and shows the missing-key warning.
C1_NoKeyBlocksTranslate ==
    [][(action' = "translate" /\ api_key = "" /\ env_key = "")
          => (calls' = <<>> /\ warning' /\ UNCHANGED session)]_vars

C1_Witness ==
    /\ action = "translate"
    /\ api_key = "" /\ env_key = ""
    /\ warning
    /\ calls = <<>>

-----------------------------------------------------------------------------
(* C2 *)

\* C2: the chat input is on the page, a chat question can be submitted, and
\* a chat prompt is sent to the provider, only while a translation result
\* is stored.
C2_ChatNeedsTranslation ==
    /\ chat_input => Truthy(translation_result)
    /\ (ENABLED SubmitChat) => Truthy(translation_result)
    /\ \A i \in 1..Len(calls) :
          calls[i].template = "chat" => Truthy(translation_result)

C2_Witness ==
    /\ action = "chat"
    /\ calls # <<>>
    /\ calls[1].template = "chat"
    /\ Truthy(translation_result)

-----------------------------------------------------------------------------
(* C3 *)

\* C3: a run ended by the provider's failure leaves translation_result,
\* explanation_result and original_code as they were and keeps every earlier
\* chat turn in place; after it the translate button is on the page, after a
\* failed chat the chat input is still on the page too, and a re-render that
\* completes after a failure shows the chat input whenever a translation
\* is stored.
C3_ProviderFailureKeepsResults ==
    [][/\ error' = "ProviderError"
             => /\ UNCHANGED <<translation_result, explanation_result,
                               original_code>>
                /\ IsPrefix(chat_history, chat_history')
                /\ translate_button'
                /\ action' = "chat" => chat_input'
       /\ (error = "ProviderError" /\ action' = "rerun" /\ error' = "none")
             => (chat_input' <=> Truthy(translation_result'))]_vars

C3_Witness ==
    /\ error = "ProviderError"
    /\ action = "chat"
    /\ Len(chat_history) = 3
    /\ Truthy(translation_result)

-----------------------------------------------------------------------------
(* C4 *)

\* C4: whatever the provider answered, the translate run that stores the
\* answer ends without an exception, shows a code pane for a stored
\* translation and leaves the chat input on the page.
C4_AnyResponseRenders ==
    TranslateStored =>
        /\ error = "none"
        /\ Truthy(translation_result) =>
              (code_to_display # None /\ chat_input)

-----------------------------------------------------------------------------
(* C5 *)

\* C5, as stated: for a response with the delimiter, translation_result,
\* the delimiter and explanation_result concatenated are the response.
C5_Reconstructs ==
    (full_response # None /\ HasDelimiter(full_response))
        => translation_result \o DELIM \o explanation_result = full_response

\* C5, amended: a response with the delimiter is cut at the delimiter's
\* first occurrence into two segments that, with the delimiter between
\* them, are the response; translation_result and explanation_result are
\* those segments without their leading and trailing whitespace.
C5_SplitAtFirstDelimiter ==
    (full_response # None /\ HasDelimiter(full_response))
        => \E i \in 1..Len(full_response) :
              LET before == SubSeq(full_response, 1, i - 1)
                  after == SubSeq(full_response, i + Len(DELIM),
                                  Len(full_response))
              IN  /\ StartsAt(full_response, DELIM, i)
                  /\ \A k \in 1..(i - 1) : ~StartsAt(full_response, DELIM, k)
                  /\ before \o DELIM \o after = full_response
                  /\ IsStripped(translation_result, before)
                  /\ IsStripped(explanation_result, after)

C5_Witness ==
    /\ TranslateStored
    /\ HasDelimiter(full_response)
    /\ Truthy(translation_result)
    /\ Truthy(explanation_result)
    /\ translation_result \o DELIM \o explanation_result # full_response

-----------------------------------------------------------------------------
(* C6 *)

\* C6: for a response without the delimiter, explanation_result is the
\* placeholder and translation_result is the response, unchanged.
C6_FallbackWithoutDelimiter ==
    (full_response # None /\ ~HasDelimiter(full_response))
        => /\ explanation_result = Placeholder
           /\ translation_result = full_response

C6_Witness ==
    /\ TranslateStored
    /\ ~HasDelimiter(full_response)
    /\ Len(full_response) >= 3
    /\ full_response[1] \in Whitespace
    /\ full_response[Len(full_response)] \in Whitespace
    /\ explanation_result = Placeholder

-----------------------------------------------------------------------------
(* C7 *)

\* C7: when the code pane is drawn for a stored translation that holds a
\* fenced block, it shows the text between the block's two fence markers
\* after the language-tag line; for a translation with no fence marker it
\* shows the translation itself.
C7_DisplayedCode ==
    (Truthy(translation_result) /\ error # "ProviderError")
        => /\ ~HasFence(translation_result)
                => code_to_display = translation_result
           /\ \A i \in 1..Len(translation_result),
                 n \in 1..Len(translation_result),
                 j \in 1..Len(translation_result) :
                 FencedBlockAt(translation_result, i, n, j)
                     => code_to_display = SubSeq(translation_result, n + 1, j - 1)

C7_Witness ==
    /\ Truthy(translation_result)
    /\ \E i \in 1..Len(translation_result),
          n \in 1..Len(translation_result),
          j \in 1..Len(translation_result) :
          /\ FencedBlockAt(translation_result, i, n, j)
          /\ j > n + 1
    /\ code_to_display # None
    /\ code_to_display # <<>>

-----------------------------------------------------------------------------
(* C8 *)

\* C8: the prompt a translate click sends is rendered from the webpage
\* template when the target language is HTML or CSS and from the generic
\* template otherwise, whatever the source language; never from the chat
\* template.
C8_TemplateByTarget ==
    TranslateCalled =>
        \A i \in 1..Len(calls) :
            calls[i].template =
                IF calls[i].target_lang = "HTML" \/ calls[i].target_lang = "CSS"
                THEN "webpage"
                ELSE "generic"

C8_Witness ==
    /\ TranslateCalled
    /\ calls[1].target_lang = "CSS"
    /\ calls[1].source_lang = "Python"
    /\ calls[1].template = "webpage"

-----------------------------------------------------------------------------
(* C9 *)

\* C9, as stated: every action leaves the existing turns as a prefix of the
\* new history.
C9_AppendOnly == [][IsPrefix(chat_history, chat_history')]_vars

\* C9, amended: every action either leaves the history as it was, or adds at
\* its end the user's turn alone or followed by the assistant's answer; the
\* one exception is a translate click whose response is stored, which
\* empties the history.
C9_AppendOnlyUntilTranslate ==
    [][\/ chat_history' = chat_history
       \/ \E q \in Questions :
             \/ chat_history' = chat_history \o <<<<"user", q>>>>
             \/ \E a \in Answers :
                   chat_history' =
                       chat_history \o <<<<"user", q>>, <<"assistant", a>>>>
       \/ (TranslateStored' /\ chat_history' = <<>>)]_vars

C9_Witness ==
    /\ action = "chat"
    /\ Len(chat_history) = 3
    /\ chat_history[1][1] = "user"
    /\ chat_history[2][1] = "assistant"
    /\ chat_history[3] = <<"user", <<"q">>>>
    /\ chat_history[1] = <<"user", <<"p">>>>

-----------------------------------------------------------------------------
(* C10 *)

\* C10: between actions the chat history has even length and alternates
\* user and assistant turns, starting with a user turn.
C10_Alternates ==
    /\ Len(chat_history) % 2 = 0
    /\ \A i \in 1..Len(chat_history) :
          chat_history[i][1] = IF i % 2 = 1 THEN "user" ELSE "assistant"

====
